---- MODULE Spec2Model ----
(***************************************************************************)
(* A model of core_utils: the abstract model bases and managers of         *)
(* core_utils/models.py and the field factories of core_utils/fields.py.   *)
(*                                                                         *)
(* Python values are written as the text of their literal: "None", "True", *)
(* "1024", "''" (the empty string), "'rel'" (a non-empty string).  Keyword *)
(* arguments (kwargs) are functions from a finite set of keys to values.   *)
(***************************************************************************)
EXTENDS Integers, Sequences, FiniteSets, TLC

VARIABLES
    inst,        \* the VersionedModel instance: version, update_user, effective_user
    v0,          \* the version the instance started with
    nsaves,      \* number of invocations of VersionedModel.save so far
    superCalls,  \* number of invocations of the underlying models.Model.save so far
    stored,      \* what the underlying save last persisted ("unsaved" before)
    last,        \* the latest invocation of save: its inputs and what it did
    table,       \* the rows of a NamedModel table: name (unique) and alias
    mgr,         \* the latest manager call: its input and what it did
    fcall,       \* the latest field-factory call: its input and the constructor call made
    vcall,       \* the latest validator call: its input and what it did
    classes,     \* the model classes: the internal _meta object and the Meta attribute
    mcall        \* the latest call of the naming helpers or of the meta decorator

saveVars == <<inst, v0, nsaves, superCalls, stored, last>>
mgrVars == <<table, mgr>>
fieldVars == <<fcall>>
validatorVars == <<vcall>>
metaVars == <<classes, mcall>>

vars == <<inst, v0, nsaves, superCalls, stored, last, table, mgr, fcall, vcall,
          classes, mcall>>

----------------------------------------------------------------------------
\* Python helpers

None == "None"

\* dict.pop(key, None): the value removed
Pop(kw, key) == IF key \in DOMAIN kw THEN kw[key] ELSE None

\* dict.pop(key, None): the dictionary left behind
Rest(kw, key) == [k \in DOMAIN kw \ {key} |-> kw[k]]

\* the dictionaries of at most n of the keys `keys`, each key with a value of vals[key]
KwDicts(keys, vals, n) ==
    UNION { { f \in [d -> UNION {vals[k] : k \in d}] : \A k \in d : f[k] \in vals[k] } :
            d \in { x \in SUBSET keys : Cardinality(x) <= n } }

\* dict.update: the entries of kwargs replace and extend those of defaults
Update(defaults, kwargs) ==
    [k \in DOMAIN defaults \cup DOMAIN kwargs |->
        IF k \in DOMAIN kwargs THEN kwargs[k] ELSE defaults[k]]

Range(seq) == { seq[i] : i \in DOMAIN seq }

\* Binding the arguments of a call to a function whose signature is the required
\* parameters `params` followed by a keyword catch-all: positional arguments fill
\* the parameters in order, keywords naming a parameter fill it, the other keywords
\* are the catch-all.  Too many positional arguments, a parameter given twice or a
\* parameter not given is a TypeError.
Bind(params, pos, kw) ==
    IF \/ Len(pos) > Len(params)
       \/ \E i \in 1..Len(pos) : params[i] \in DOMAIN kw
       \/ \E i \in (Len(pos) + 1)..Len(params) : params[i] \notin DOMAIN kw
    THEN [raised |-> "TypeError", named |-> [k \in {} |-> None], rest |-> [k \in {} |-> None]]
    ELSE [raised |-> "none",
          named |-> [p \in Range(params) |->
                        LET i == CHOOSE j \in 1..Len(params) : params[j] = p
                        IN  IF i <= Len(pos) THEN pos[i] ELSE kw[p]],
          rest |-> [k \in DOMAIN kw \ Range(params) |-> kw[k]]]

----------------------------------------------------------------------------
\* VersionedModel.save

MaxSaves == 2
MaxV0 == 1

Users == {"u1", "u2"}

SaveKeys == {"update_user", "effective_user", "force_insert"}

SaveVals == [k \in SaveKeys |->
    CASE k = "update_user"    -> Users \cup {None}
      [] k = "effective_user" -> Users \cup {None}
      [] k = "force_insert"   -> {"True"}]

SaveKwargs == KwDicts(SaveKeys, SaveVals, Cardinality(SaveKeys))

\* positional arguments of save: none, or force_insert given positionally
SaveArgs == {<<>>, <<"True">>}

\* a slip: the version set rather than incremented
BumpVersion_Set(self) == [self EXCEPT !.version = 1]

\* self.version += 1
BumpVersion(self) == [self EXCEPT !.version = @ + 1]

\* a slip: the update user not yet assigned when the underlying save runs
SetUpdateUser_Late(self, update_user) == self

\* if update_user is not None: self.update_user = update_user
SetUpdateUser(self, update_user) ==
    IF update_user # None THEN [self EXCEPT !.update_user = update_user] ELSE self

\* if update_user is not None: self.effective_user = effective_user
SetEffectiveUser(self, update_user, effective_user) ==
    IF update_user # None THEN [self EXCEPT !.effective_user = effective_user] ELSE self

\* kwargs as left by the two pops, handed to super().save
SuperKwargs(kwargs) == Rest(Rest(kwargs, "update_user"), "effective_user")

\* the instance as it is when super().save is entered
BeforeSuper(self, kwargs) ==
    LET update_user    == Pop(kwargs, "update_user")
        effective_user == Pop(Rest(kwargs, "update_user"), "effective_user")
    IN  SetEffectiveUser(SetUpdateUser(BumpVersion(self), update_user),
                         update_user, effective_user)

NoKwargs == [k \in {} |-> None]

\* save with positional args and keyword kwargs; the underlying save is entered
\* once, after the assignments, and either persists the instance or raises
save(args, kwargs, outcome) ==
    /\ nsaves < MaxSaves
    /\ LET self == BeforeSuper(inst, kwargs) IN
        /\ inst' = self
        /\ superCalls' = superCalls + 1
        /\ stored' = IF outcome = "ok" THEN [saved |-> TRUE, row |-> self] ELSE stored
        /\ last' = [called |-> TRUE, args |-> args, kwargs |-> kwargs, pre |-> inst,
                    at_super |-> self, super_args |-> args,
                    super_kwargs |-> SuperKwargs(kwargs), outcome |-> outcome]
    /\ nsaves' = nsaves + 1
    /\ UNCHANGED <<v0, mgrVars, fieldVars, validatorVars, metaVars>>

\* a save that has not been called
NoSave(self) ==
    [called |-> FALSE, args |-> <<>>, kwargs |-> NoKwargs, pre |-> self,
     at_super |-> self, super_args |-> <<>>, super_kwargs |-> NoKwargs,
     outcome |-> "none"]

NewInstance == [version |-> 0, update_user |-> None, effective_user |-> None]

----------------------------------------------------------------------------
\* VersionedModelManager and NamedModelManager

MaxRows == 3

UNKNOWN == "UNKNOWN"

Names == {UNKNOWN, "usd", "eur"}
Aliases == {None, "a"}
Rows == [name : Names, alias : Aliases]

\* name is declared name_field(): unique, so a table never holds a name twice
Tables == { t \in SUBSET Rows :
              /\ Cardinality(t) <= MaxRows
              /\ \A r1, r2 \in t : r1.name = r2.name => r1 = r2 }

\* lookup criteria of get: none, name=value or alias=value
Criteria == {[field |-> "all", value |-> None]}
            \cup [field : {"name"}, value : Names \cup {"missing"}]
            \cup [field : {"alias"}, value : Aliases \cup {"missing"}]

Matches(tbl, crit) ==
    { r \in tbl : \/ crit.field = "all"
                  \/ crit.field = "name" /\ r.name = crit.value
                  \/ crit.field = "alias" /\ r.alias = crit.value }

\* Manager.get: the one matching row, or DoesNotExist, or MultipleObjectsReturned
get(tbl, crit) ==
    LET m == Matches(tbl, crit) IN
    CASE Cardinality(m) = 1 -> [raised |-> "none", rows |-> m]
      [] Cardinality(m) = 0 -> [raised |-> "DoesNotExist", rows |-> {}]
      [] OTHER              -> [raised |-> "MultipleObjectsReturned", rows |-> {}]

\* a slip: every failure of get suppressed, not DoesNotExist alone
get_or_none_CatchAll(tbl, crit) ==
    LET r == get(tbl, crit) IN
    IF r.raised # "none"
    THEN [returned |-> "None", raised |-> "none", rows |-> {}, warnings |-> 0, lookups |-> 1]
    ELSE [returned |-> "row", raised |-> "none", rows |-> r.rows, warnings |-> 0,
          lookups |-> 1]

\* get_or_none: try get; except DoesNotExist: return None
get_or_none(tbl, crit) ==
    LET r == get(tbl, crit) IN
    IF r.raised = "DoesNotExist"
    THEN [returned |-> "None", raised |-> "none", rows |-> {}, warnings |-> 0, lookups |-> 1]
    ELSE [returned |-> IF r.raised = "none" THEN "row" ELSE "raise",
          raised |-> r.raised, rows |-> r.rows, warnings |-> 0, lookups |-> 1]

\* a slip: the fallback looks the requested name up again
named_instance_Retry(tbl, name) ==
    LET r == get(tbl, [field |-> "name", value |-> name]) IN
    IF r.raised = "DoesNotExist"
    THEN LET u == get(tbl, [field |-> "name", value |-> name]) IN
         [returned |-> IF u.raised = "none" THEN "row" ELSE "raise",
          raised |-> u.raised, rows |-> u.rows, warnings |-> 1, lookups |-> 2]
    ELSE [returned |-> IF r.raised = "none" THEN "row" ELSE "raise",
          raised |-> r.raised, rows |-> r.rows, warnings |-> 0, lookups |-> 1]

\* named_instance: try get(name=name); except DoesNotExist: warn, get(name=UNKNOWN)
named_instance(tbl, name) ==
    LET r == get(tbl, [field |-> "name", value |-> name]) IN
    IF r.raised = "DoesNotExist"
    THEN LET u == get(tbl, [field |-> "name", value |-> UNKNOWN]) IN
         [returned |-> IF u.raised = "none" THEN "row" ELSE "raise",
          raised |-> u.raised, rows |-> u.rows, warnings |-> 1, lookups |-> 2]
    ELSE [returned |-> IF r.raised = "none" THEN "row" ELSE "raise",
          raised |-> r.raised, rows |-> r.rows, warnings |-> 0, lookups |-> 1]

GetOrNone(crit) ==
    /\ mgr' = [op |-> "get_or_none", crit |-> crit, before |-> table,
               res |-> get_or_none(table, crit)]
    /\ UNCHANGED <<table, saveVars, fieldVars, validatorVars, metaVars>>

NamedInstance(name) ==
    /\ mgr' = [op |-> "named_instance", crit |-> [field |-> "name", value |-> name],
               before |-> table, res |-> named_instance(table, name)]
    /\ UNCHANGED <<table, saveVars, fieldVars, validatorVars, metaVars>>

\* no manager call made yet
NoLookup(tbl) ==
    [op |-> "none", crit |-> [field |-> "all", value |-> None], before |-> tbl,
     res |-> [returned |-> "None", raised |-> "none", rows |-> {},
              warnings |-> 0, lookups |-> 0]]

----------------------------------------------------------------------------
\* Field factories.  A factory's result is the constructor call it makes: the
\* constructor, its positional arguments and its keyword options; or the error
\* raised before any constructor is reached.

CHAR_FIELD_MAX_LENGTH == 1024
URL_FIELD_MAX_LENGTH == 255
GEO_LOCATION_MAX_DIGITS == 9
GEO_LOCATION_DECIMAL_PLACES == 6
NAME_FIELD_MAX_LENGTH == 255
USER_AGENT_FIELD_MAX_LENGTH == 512
DEFAULT_TIME_ZONE == "'America/New_York'"

\* the literal of a number
Lit(n) == ToString(n)

Construct(ctor, pos, options) ==
    [raised |-> "none", ctor |-> ctor, pos |-> pos, options |-> options]

Raise(error) ==
    [raised |-> error, ctor |-> "none", pos |-> <<>>, options |-> [k \in {} |-> None]]

auto_field(kwargs) ==
    Construct("AutoField", <<>>,
        Update([blank |-> "True", null |-> "False", primary_key |-> "True",
                unique |-> "True"], kwargs))

boolean_field(kwargs) ==
    Construct("BooleanField", <<>>,
        Update([blank |-> "False", null |-> "False", default |-> "False"], kwargs))

file_field(pos, kw) ==
    LET b == Bind(<<"upload_to">>, pos, kw) IN
    IF b.raised # "none" THEN Raise(b.raised)
    ELSE Construct("FileField", <<>>,
            Update([upload_to |-> b.named["upload_to"]], b.rest))

char_field(kwargs) ==
    Construct("CharField", <<>>,
        Update([max_length |-> Lit(CHAR_FIELD_MAX_LENGTH), blank |-> "False",
                null |-> "False", unique |-> "False"], kwargs))

date_field(kwargs) ==
    Construct("DateField", <<>>,
        Update([auto_now |-> "False", auto_now_add |-> "False", blank |-> "False",
                null |-> "False"], kwargs))

datetime_field(kwargs) ==
    Construct("DateTimeField", <<>>,
        Update([auto_now |-> "False", auto_now_add |-> "False", blank |-> "False",
                null |-> "False"], kwargs))

decimal_field(pos, kw) ==
    LET b == Bind(<<"max_digits", "decimal_places">>, pos, kw) IN
    IF b.raised # "none" THEN Raise(b.raised)
    ELSE Construct("DecimalField", <<>>,
            Update([decimal_places |-> b.named["decimal_places"],
                    max_digits |-> b.named["max_digits"],
                    default |-> "0", blank |-> "False", null |-> "False"], b.rest))

floating_point_field(kwargs) ==
    Construct("FloatField", <<>>,
        Update([blank |-> "False", null |-> "False", default |-> "0.0"], kwargs))

foreign_key_field(pos, kw) ==
    LET b == Bind(<<"to">>, pos, kw) IN
    IF b.raised # "none" THEN Raise(b.raised)
    ELSE Construct("ForeignKey", <<b.named["to"]>>,
            Update([blank |-> "False", db_constraint |-> "True", null |-> "False",
                    on_delete |-> "models.PROTECT"], b.rest))

image_field(kwargs) == Construct("ImageField", <<>>, kwargs)

integer_field(kwargs) ==
    Construct("IntegerField", <<>>,
        Update([default |-> "0", blank |-> "False", null |-> "False"], kwargs))

ip_address_field(kwargs) ==
    Construct("GenericIPAddressField", <<>>,
        Update([null |-> "False", blank |-> "False"], kwargs))

\* Python truth value of a literal
Truthy(v) == v \notin {None, "''", "False", "0", "0.0", "[]"}

\* class objects, written as Python prints them
User == "<class User>"
TargetClasses == {"<class Target>", "<class order_item>", "<class orderItem>"}
ModelClasses == {"<class OrderItem>", "<class Country>", "<class IPAddress>"}

\* utils.core.class_name: the name of a class object
class_name(cls) ==
    CASE cls = "<class User>"       -> "User"
      [] cls = "<class Target>"     -> "Target"
      [] cls = "<class order_item>" -> "order_item"
      [] cls = "<class orderItem>"  -> "orderItem"
      [] cls = "<class OrderItem>"  -> "OrderItem"
      [] cls = "<class Country>"    -> "Country"
      [] cls = "<class IPAddress>"  -> "IPAddress"

\* inflection.camelize: the first letter and each letter after an underscore
\* upper-cased, the underscores dropped
camelize(name) ==
    CASE name = "User"       -> "User"
      [] name = "Target"     -> "Target"
      [] name = "order_item" -> "OrderItem"
      [] name = "orderItem"  -> "OrderItem"

\* a slip: the default name used only when the caller gave None
RelatedName_OnlyNone(related_name, to) ==
    IF related_name # None THEN related_name
    ELSE "'" \o camelize(class_name(to)) \o "_set" \o "'"

\* related_name or '{}_set'.format(inflection.camelize(class_name(to)))
RelatedName(related_name, to) ==
    IF Truthy(related_name) THEN related_name
    ELSE "'" \o camelize(class_name(to)) \o "_set" \o "'"

many_to_many_field(pos, kw) ==
    LET b == Bind(<<"to", "db_table">>, pos, kw) IN
    IF b.raised # "none" THEN Raise(b.raised)
    ELSE LET related_name == Pop(b.rest, "related_name")
             defaults == Update([db_constraint |-> "True", null |-> "True",
                                 blank |-> "True"], Rest(b.rest, "related_name"))
         IN  Construct("ManyToManyField", <<b.named["to"]>>,
                Update([db_table |-> b.named["db_table"],
                        related_name |-> RelatedName(related_name, b.named["to"])],
                       defaults))

one_to_one_field(pos, kw) ==
    LET b == Bind(<<"to">>, pos, kw) IN
    IF b.raised # "none" THEN Raise(b.raised)
    ELSE Construct("OneToOneField", <<b.named["to"]>>,
            Update([blank |-> "False", db_constraint |-> "True", null |-> "False",
                    on_delete |-> "models.PROTECT"], b.rest))

small_integer_field(kwargs) ==
    Construct("SmallIntegerField", <<>>,
        Update([default |-> "0", blank |-> "False", null |-> "False"], kwargs))

text_field(kwargs) ==
    Construct("TextField", <<>>,
        Update([blank |-> "True", null |-> "True", unique |-> "False"], kwargs))

url_field(kwargs) ==
    Construct("URLField", <<>>,
        Update([max_length |-> Lit(URL_FIELD_MAX_LENGTH), null |-> "False",
                blank |-> "False"], kwargs))

uuid_field(kwargs) ==
    Construct("UUIDField", <<>>,
        Update([unique |-> "True", default |-> "uuid.uuid4", db_index |-> "True",
                editable |-> "False"], kwargs))

annotation_field(kwargs) ==
    text_field(Update([blank |-> "False", null |-> "False", unique |-> "False"], kwargs))

description_field(kwargs) ==
    text_field(Update([blank |-> "False", null |-> "False", unique |-> "False"], kwargs))

geo_location_field(kwargs) ==
    decimal_field(<<>>,
        Update([max_digits |-> Lit(GEO_LOCATION_MAX_DIGITS),
                decimal_places |-> Lit(GEO_LOCATION_DECIMAL_PLACES)], kwargs))

longitude_field(kwargs) ==
    geo_location_field(Update([validators |-> "[longitude_validator]"], kwargs))

latitude_field(kwargs) ==
    geo_location_field(Update([validators |-> "[latitude_validator]"], kwargs))

mac_address_field(kwargs) ==
    Construct("MACAddressField", <<>>,
        Update([unique |-> "True", null |-> "False", blank |-> "False"], kwargs))

\* a slip: the defaults laid over the caller's keywords
name_field_DefaultsWin(kwargs) ==
    char_field(Update(kwargs,
                      [max_length |-> Lit(NAME_FIELD_MAX_LENGTH), unique |-> "True",
                       db_index |-> "True", null |-> "False", blank |-> "False"]))

name_field(kwargs) ==
    char_field(Update([max_length |-> Lit(NAME_FIELD_MAX_LENGTH), unique |-> "True",
                       db_index |-> "True", null |-> "False", blank |-> "False"],
                      kwargs))

user_field(kwargs) == foreign_key_field(<<User>>, kwargs)

user_agent_field(kwargs) ==
    char_field(Update([null |-> "False", blank |-> "False",
                       max_length |-> Lit(USER_AGENT_FIELD_MAX_LENGTH)], kwargs))

time_zone_field(kwargs) ==
    Construct("TimeZoneField", <<>>,
        Update([null |-> "False", blank |-> "False", default |-> DEFAULT_TIME_ZONE],
               kwargs))

phone_number_field(kwargs) ==
    Construct("PhoneNumberField", <<>>,
        Update([null |-> "False", blank |-> "False"], kwargs))

email_field(kwargs) ==
    Construct("EmailField", <<>>,
        Update([null |-> "False", blank |-> "False"], kwargs))

instance_messaging_field(kwargs) ==
    url_field(Update([null |-> "False", blank |-> "False",
                      validators |-> "[URLValidator(schemes=['im', 'xmpp'])]"], kwargs))

uri_field(kwargs) ==
    url_field(Update([null |-> "False", blank |-> "False",
                      validators |->
   "[URLValidator(schemes=['im', 'xmpp', 'http', 'https', 'ftp', 'ftps', 'tel', 'mailto', 'urn'])]"],
                     kwargs))

priority_field(kwargs) ==
    Construct("PositiveSmallIntegerField", <<>>, Update([default |-> "0"], kwargs))

\* the factories whose signature is the keyword catch-all alone
KeywordFactories ==
    {"auto_field", "boolean_field", "char_field", "date_field", "datetime_field",
     "floating_point_field", "image_field", "integer_field", "ip_address_field",
     "small_integer_field", "text_field", "url_field", "uuid_field",
     "annotation_field", "description_field", "geo_location_field",
     "longitude_field", "latitude_field", "mac_address_field", "name_field",
     "user_field", "user_agent_field", "time_zone_field", "phone_number_field",
     "email_field", "instance_messaging_field", "uri_field", "priority_field"}

\* the factories with required parameters before the catch-all
ParamFactories ==
    {"file_field", "decimal_field", "foreign_key_field", "many_to_many_field",
     "one_to_one_field"}

Factories == KeywordFactories \cup ParamFactories

Apply(factory, pos, kw) ==
    CASE factory = "auto_field"               -> auto_field(kw)
      [] factory = "boolean_field"            -> boolean_field(kw)
      [] factory = "file_field"               -> file_field(pos, kw)
      [] factory = "char_field"               -> char_field(kw)
      [] factory = "date_field"               -> date_field(kw)
      [] factory = "datetime_field"           -> datetime_field(kw)
      [] factory = "decimal_field"            -> decimal_field(pos, kw)
      [] factory = "floating_point_field"     -> floating_point_field(kw)
      [] factory = "foreign_key_field"        -> foreign_key_field(pos, kw)
      [] factory = "image_field"              -> image_field(kw)
      [] factory = "integer_field"            -> integer_field(kw)
      [] factory = "ip_address_field"         -> ip_address_field(kw)
      [] factory = "many_to_many_field"       -> many_to_many_field(pos, kw)
      [] factory = "one_to_one_field"         -> one_to_one_field(pos, kw)
      [] factory = "small_integer_field"      -> small_integer_field(kw)
      [] factory = "text_field"               -> text_field(kw)
      [] factory = "url_field"                -> url_field(kw)
      [] factory = "uuid_field"               -> uuid_field(kw)
      [] factory = "annotation_field"         -> annotation_field(kw)
      [] factory = "description_field"        -> description_field(kw)
      [] factory = "geo_location_field"       -> geo_location_field(kw)
      [] factory = "longitude_field"          -> longitude_field(kw)
      [] factory = "latitude_field"           -> latitude_field(kw)
      [] factory = "mac_address_field"        -> mac_address_field(kw)
      [] factory = "name_field"               -> name_field(kw)
      [] factory = "user_field"               -> user_field(kw)
      [] factory = "user_agent_field"         -> user_agent_field(kw)
      [] factory = "time_zone_field"          -> time_zone_field(kw)
      [] factory = "phone_number_field"       -> phone_number_field(kw)
      [] factory = "email_field"              -> email_field(kw)
      [] factory = "instance_messaging_field" -> instance_messaging_field(kw)
      [] factory = "uri_field"                -> uri_field(kw)
      [] factory = "priority_field"           -> priority_field(kw)

\* The calls made of the factories: the required arguments given positionally or
\* not at all, and at most MaxOverrides keyword arguments.
MaxOverrides == 2

OverrideKeys == {"null", "unique", "max_length", "default", "validators",
                 "related_name", "to", "help_text", "max_digits"}

OverrideVals == [k \in OverrideKeys |->
    CASE k = "null"         -> {"True", "False"}
      [] k = "unique"       -> {"True"}
      [] k = "max_length"   -> {"50"}
      [] k = "default"      -> {None}
      [] k = "validators"   -> {"[]"}
      [] k = "related_name" -> {None, "''", "0", "'rel'"}
      [] k = "to"           -> {"<class Target>"}
      [] k = "help_text"    -> {"'h'"}
      [] k = "max_digits"   -> {"5"}]

Overrides == KwDicts(OverrideKeys, OverrideVals, MaxOverrides)

FactoryArgs(factory) ==
    CASE factory = "file_field"         -> {<<>>, <<"'uploads/'">>}
      [] factory = "decimal_field"      -> {<<>>, <<"5", "2">>}
      [] factory = "foreign_key_field"  -> {<<>>, <<"<class Target>">>}
      [] factory = "one_to_one_field"   -> {<<>>, <<"<class Target>">>}
      [] factory = "many_to_many_field" ->
            {<<>>} \cup { <<to, "'join_tbl'">> : to \in TargetClasses }
      [] OTHER                          -> {<<>>}

\* a call written down, not yet made
FactoryCall(factory, pos, kw) ==
    [factory |-> factory, pos |-> pos, kwargs |-> kw, called |-> FALSE,
     res |-> Raise("none")]

NoFactoryCall == FactoryCall("none", <<>>, NoKwargs)

FactoryCalls ==
    UNION { { FactoryCall(factory, pos, kw) : pos \in FactoryArgs(factory) } :
            factory \in Factories, kw \in Overrides }

\* the call is made
CallFactory ==
    /\ fcall.factory # "none"
    /\ ~fcall.called
    /\ fcall' = [fcall EXCEPT !.called = TRUE,
                               !.res = Apply(fcall.factory, fcall.pos, fcall.kwargs)]
    /\ UNCHANGED <<saveVars, mgrVars, validatorVars, metaVars>>

----------------------------------------------------------------------------
\* latitude_validator and longitude_validator.  A number is a fraction num/den
\* with den > 0, so that values between the integers are covered.

MaxNum == 365
MaxDen == 2

Numbers == [num : (0 - MaxNum)..MaxNum, den : 1..MaxDen]

Whole(n) == [num |-> n, den |-> 1]

\* a < b
Less(a, b) == a.num * b.den < b.num * a.den

\* a slip: the bounds taken as inclusive
latitude_validator_Inclusive(value) ==
    IF Less(value, Whole(0 - 90)) \/ Less(Whole(90), value)
    THEN [raised |-> "ValidationError", returned |-> {},
          message |-> "latitude not in range of -90 < value < 90"]
    ELSE [raised |-> "none", returned |-> {value}, message |-> ""]

\* valid = -90 < value < 90; raise ValidationError unless valid; return value
latitude_validator(value) ==
    LET valid == Less(Whole(0 - 90), value) /\ Less(value, Whole(90)) IN
    IF ~valid
    THEN [raised |-> "ValidationError", returned |-> {},
          message |-> "latitude not in range of -90 < value < 90"]
    ELSE [raised |-> "none", returned |-> {value}, message |-> ""]

\* valid = -180 < value < 180; raise ValidationError unless valid; return value
longitude_validator(value) ==
    LET valid == Less(Whole(0 - 180), value) /\ Less(value, Whole(180)) IN
    IF ~valid
    THEN [raised |-> "ValidationError", returned |-> {},
          message |-> "longitude not in range of -90 < value < 90"]
    ELSE [raised |-> "none", returned |-> {value}, message |-> ""]

\* a value to validate, no validator called on it yet
NoValidation(value) ==
    [fn |-> "none", value |-> value,
     res |-> [raised |-> "none", returned |-> {}, message |-> ""]]

ValidateLatitude ==
    /\ vcall.fn = "none"
    /\ vcall' = [vcall EXCEPT !.fn = "latitude_validator",
                               !.res = latitude_validator(vcall.value)]
    /\ UNCHANGED <<saveVars, mgrVars, fieldVars, metaVars>>

ValidateLongitude ==
    /\ vcall.fn = "none"
    /\ vcall' = [vcall EXCEPT !.fn = "longitude_validator",
                               !.res = longitude_validator(vcall.value)]
    /\ UNCHANGED <<saveVars, mgrVars, fieldVars, metaVars>>

----------------------------------------------------------------------------
\* Naming helpers and the meta decorator.  Names are plain strings here; the
\* library string functions are tabulated on the names the model uses.

SITE_LABEL == "sl"

\* inflection.underscore
underscore(word) ==
    CASE word = "OrderItem" -> "order_item"
      [] word = "Country"   -> "country"
      [] word = "IPAddress" -> "ip_address"

\* str.replace('_', ' ')
replace_underscores(word) ==
    CASE word = "order_item" -> "order item"
      [] word = "country"    -> "country"
      [] word = "ip_address" -> "ip address"

\* inflection.pluralize
inflection_pluralize(word) ==
    CASE word = "order item" -> "order items"
      [] word = "country"    -> "countries"
      [] word = "ip address" -> "ip addresses"

\* gettext with no catalogue entry for the message
gettext(message) == message

\* the None object among plain strings
NoneObject == "<None>"

\* str.format of one value
Str(value) == IF value = NoneObject THEN "None" ELSE value

verbose_class_name(name) == replace_underscores(underscore(name))

pluralize(name) == inflection_pluralize(name)

db_table_for_class(name) == underscore(name)

\* def db_table_for_app_and_class(app_name, table_name, site_label)
db_table_for_app_and_class(pos, kw) ==
    LET b == Bind(<<"app_name", "table_name", "site_label">>, pos, kw) IN
    IF b.raised # "none" THEN [raised |-> b.raised, value |-> ""]
    ELSE LET site_label == IF b.named["site_label"] \notin {NoneObject, ""}
                           THEN b.named["site_label"] ELSE SITE_LABEL
         IN  [raised |-> "none",
              value |-> Str(site_label) \o "_" \o Str(b.named["app_name"]) \o "_"
                        \o Str(b.named["table_name"])]

db_table(app_name, name, site_label) ==
    db_table_for_app_and_class(<<app_name, db_table_for_class(name), site_label>>,
                               NoKwargs)

\* the application the model classes are declared in
ModelModule == "billing.models"

\* what the framework's class construction leaves in _meta
DjangoMeta(cls) ==
    CASE cls = "<class OrderItem>" ->
            [db_table |-> "billing_orderitem", verbose_name |-> "order item",
             verbose_name_plural |-> "order items"]
      [] cls = "<class Country>" ->
            [db_table |-> "billing_country", verbose_name |-> "country",
             verbose_name_plural |-> "countrys"]
      [] cls = "<class IPAddress>" ->
            [db_table |-> "billing_ipaddress", verbose_name |-> "ip address",
             verbose_name_plural |-> "ip addresss"]

NoMeta == [set |-> FALSE, bases |-> <<>>, attrs |-> NoKwargs]

AppLabels == {NoneObject, "billing", "geo"}
SiteLabels == {NoneObject, "", "acme"}

MetaBases == {[kind |-> "none", classes |-> <<>>],
              [kind |-> "class", classes |-> <<"<class object>">>],
              [kind |-> "tuple", classes |-> <<"<class Base>", "<class Mixin>">>]}

MetaKeys == {"db_table", "ordering"}
MetaVals == [k \in MetaKeys |->
    CASE k = "db_table" -> {"custom_tbl"}
      [] k = "ordering" -> {"('name',)"}]
MetaKwargs == KwDicts(MetaKeys, MetaVals, Cardinality(MetaKeys))

\* wrapped(cls), the decorator meta(meta_base_classes, app_label, kwargs) returns:
\* the class as it is left, and what is returned or raised
wrapped(meta_base_classes, app_label, kwargs, cls, state) ==
    LET class_name_  == class_name(cls)
        verbose_name == verbose_class_name(class_name_)
        plural_name  == pluralize(verbose_name)
        table_name   == db_table_for_class(class_name_)
        tbl          == db_table_for_app_and_class(<<app_label, table_name>>, NoKwargs)
    IN
    IF tbl.raised # "none"
    THEN [raised |-> tbl.raised, returned |-> {}, state |-> state]
    ELSE
    LET attrs0 == Update(("__module__" :> ModelModule),
                         [verbose_name |-> gettext(verbose_name),
                          verbose_name_plural |-> gettext(plural_name),
                          db_table |-> tbl.value])
        attrs1 == IF app_label # NoneObject
                  THEN Update(attrs0, [app_label |-> app_label]) ELSE attrs0
        meta_base == IF meta_base_classes.kind # "none"
                     THEN (IF meta_base_classes.kind # "tuple"
                           THEN <<meta_base_classes.classes[1]>>
                           ELSE meta_base_classes.classes)
                     ELSE <<"<class object>">>
        meta_attrs == Update(attrs1, kwargs)
    IN  [raised |-> "none", returned |-> {cls},
         state |-> [_meta |-> [db_table |-> meta_attrs["db_table"],
                               verbose_name |-> meta_attrs["verbose_name"],
                               verbose_name_plural |-> meta_attrs["verbose_name_plural"]],
                    Meta |-> [set |-> TRUE, bases |-> meta_base, attrs |-> meta_attrs]]]

NoArgs == [meta_base_classes |-> [kind |-> "none", classes |-> <<>>],
           app_label |-> NoneObject, site_label |-> NoneObject, kwargs |-> NoKwargs]

\* @meta(meta_base_classes, app_label, kwargs) applied to cls
ApplyMeta(meta_base_classes, app_label, kwargs, cls) ==
    LET r == wrapped(meta_base_classes, app_label, kwargs, cls, classes[cls]) IN
    /\ classes' = [classes EXCEPT ![cls] = r.state]
    /\ mcall' = [op |-> "meta", cls |-> cls,
                 args |-> [NoArgs EXCEPT !.meta_base_classes = meta_base_classes,
                                         !.app_label = app_label, !.kwargs = kwargs],
                 raised |-> r.raised, returned |-> r.returned, value |-> ""]
    /\ UNCHANGED <<saveVars, mgrVars, fieldVars, validatorVars>>

\* db_table(app_name, class_name, site_label)
DbTable(app_name, cls, site_label) ==
    LET r == db_table(app_name, class_name(cls), site_label) IN
    /\ mcall' = [op |-> "db_table", cls |-> cls,
                 args |-> [NoArgs EXCEPT !.app_label = app_name,
                                         !.site_label = site_label],
                 raised |-> r.raised, returned |-> {}, value |-> r.value]
    /\ UNCHANGED <<classes, saveVars, mgrVars, fieldVars, validatorVars>>

\* verbose_class_name(class_name) and pluralize of it
VerboseName(cls, plural) ==
    LET v == verbose_class_name(class_name(cls)) IN
    /\ mcall' = [op |-> IF plural THEN "pluralize" ELSE "verbose_class_name",
                 cls |-> cls, args |-> NoArgs, raised |-> "none", returned |-> {},
                 value |-> IF plural THEN pluralize(v) ELSE v]
    /\ UNCHANGED <<classes, saveVars, mgrVars, fieldVars, validatorVars>>

NoNamingCall ==
    [op |-> "none", cls |-> "<class OrderItem>", args |-> NoArgs,
     raised |-> "none", returned |-> {}, value |-> ""]

FreshClasses == [cls \in ModelClasses |-> [_meta |-> DjangoMeta(cls), Meta |-> NoMeta]]

----------------------------------------------------------------------------
\* Specifications: one per part of the library.  The parts share no state; in
\* each specification the variables of the other parts keep their initial value.

SaveInit ==
    /\ v0 \in 0..MaxV0
    /\ inst \in [version : {v0}, update_user : Users \cup {None},
                 effective_user : Users \cup {None}]
    /\ nsaves = 0
    /\ superCalls = 0
    /\ stored = [saved |-> FALSE, row |-> inst]
    /\ last = NoSave(inst)
    /\ table = {}
    /\ mgr = NoLookup(table)
    /\ fcall = NoFactoryCall
    /\ vcall = NoValidation(Whole(0))
    /\ classes = FreshClasses
    /\ mcall = NoNamingCall

SaveNext ==
    \E args \in SaveArgs, kwargs \in SaveKwargs, outcome \in {"ok", "error"} :
        save(args, kwargs, outcome)

SaveSpec == SaveInit /\ [][SaveNext]_vars

ManagerInit ==
    /\ v0 = 0
    /\ inst = NewInstance
    /\ nsaves = 0
    /\ superCalls = 0
    /\ stored = [saved |-> FALSE, row |-> inst]
    /\ last = NoSave(inst)
    /\ table \in Tables
    /\ mgr = NoLookup(table)
    /\ fcall = NoFactoryCall
    /\ vcall = NoValidation(Whole(0))
    /\ classes = FreshClasses
    /\ mcall = NoNamingCall

ManagerNext ==
    \/ \E crit \in Criteria : GetOrNone(crit)
    \/ \E name \in Names \cup {"missing"} : NamedInstance(name)

ManagerSpec == ManagerInit /\ [][ManagerNext]_vars

IdleInit ==
    /\ v0 = 0
    /\ inst = NewInstance
    /\ nsaves = 0
    /\ superCalls = 0
    /\ stored = [saved |-> FALSE, row |-> inst]
    /\ last = NoSave(inst)
    /\ table = {}
    /\ mgr = NoLookup(table)
    /\ fcall = NoFactoryCall
    /\ vcall = NoValidation(Whole(0))
    /\ classes = FreshClasses
    /\ mcall = NoNamingCall

FieldsInit ==
    /\ v0 = 0
    /\ inst = NewInstance
    /\ nsaves = 0
    /\ superCalls = 0
    /\ stored = [saved |-> FALSE, row |-> inst]
    /\ last = NoSave(inst)
    /\ table = {}
    /\ mgr = NoLookup(table)
    /\ fcall \in FactoryCalls
    /\ vcall = NoValidation(Whole(0))
    /\ classes = FreshClasses
    /\ mcall = NoNamingCall

FieldsNext == CallFactory

FieldsSpec == FieldsInit /\ [][FieldsNext]_vars

ValidatorsInit ==
    /\ v0 = 0
    /\ inst = NewInstance
    /\ nsaves = 0
    /\ superCalls = 0
    /\ stored = [saved |-> FALSE, row |-> inst]
    /\ last = NoSave(inst)
    /\ table = {}
    /\ mgr = NoLookup(table)
    /\ fcall = NoFactoryCall
    /\ vcall \in { NoValidation(value) : value \in Numbers }
    /\ classes = FreshClasses
    /\ mcall = NoNamingCall

ValidatorsNext == ValidateLatitude \/ ValidateLongitude

ValidatorsSpec == ValidatorsInit /\ [][ValidatorsNext]_vars

MetaNext ==
    \/ \E b \in MetaBases, a \in AppLabels, kw \in MetaKwargs, cls \in ModelClasses :
            ApplyMeta(b, a, kw, cls)
    \/ \E a \in AppLabels, cls \in ModelClasses, sl \in SiteLabels :
            DbTable(a, cls, sl)
    \/ \E cls \in ModelClasses, plural \in BOOLEAN : VerboseName(cls, plural)

MetaSpec == IdleInit /\ [][MetaNext]_vars

----------------------------------------------------------------------------
\* Claims about VersionedModel.save (SaveSpec)

\* C1: after n invocations of save, whatever their keyword arguments and whether
\* or not the underlying save succeeded, the version is the initial version + n.
C1_VersionCountsSaves == inst.version = v0 + nsaves

\* C1 witness: two saves made, the latest one failing in the underlying save
C1_Witness ==
    /\ nsaves = 2
    /\ last.outcome = "error"
    /\ inst.version = v0 + 2

\* C2: whenever save is given an effective_user keyword argument, that value is
\* the instance's effective_user afterwards, whatever the other arguments.
C2_EffectiveUserAssigned ==
    (last.called /\ "effective_user" \in DOMAIN last.kwargs)
        => inst.effective_user = last.kwargs["effective_user"]

\* C3: a save given a user as update_user has that user assigned when the
\* underlying save is entered (and so persisted when it succeeds); the underlying
\* save is entered once per invocation, with the positional arguments and with the
\* keyword arguments less update_user and effective_user.
C3_UpdateUserBeforeSuper ==
    /\ superCalls = nsaves
    /\ last.called =>
        /\ last.super_args = last.args
        /\ last.super_kwargs =
              [k \in DOMAIN last.kwargs \ {"update_user", "effective_user"} |->
                  last.kwargs[k]]
        /\ ("update_user" \in DOMAIN last.kwargs /\ last.kwargs["update_user"] \in Users)
              => /\ last.at_super.update_user = last.kwargs["update_user"]
                 /\ last.outcome = "ok" => /\ stored.saved
                                           /\ stored.row.update_user
                                                = last.kwargs["update_user"]

\* C3 witness: a successful save given a new update_user, effective_user and
\* force_insert
C3_Witness ==
    /\ last.called
    /\ last.outcome = "ok"
    /\ DOMAIN last.kwargs = SaveKeys
    /\ last.kwargs["update_user"] \in Users
    /\ last.kwargs["update_user"] # last.pre.update_user
    /\ DOMAIN last.super_kwargs = {"force_insert"}

\* C10: a save given no effective_user keyword argument leaves effective_user as
\* it was, and a save given no update_user keyword argument leaves update_user
\* as it was.
C10_UsersKeptWhenNotGiven ==
    last.called =>
        /\ "effective_user" \notin DOMAIN last.kwargs
              => inst.effective_user = last.pre.effective_user
        /\ "update_user" \notin DOMAIN last.kwargs
              => inst.update_user = last.pre.update_user

----------------------------------------------------------------------------
\* Claims about the managers (ManagerSpec)

RowsNamed(name) == { r \in table : r.name = name }

\* C5: named_instance(name) returns the row of that name without a warning when
\* there is one; otherwise it logs one warning and returns the row named UNKNOWN
\* when there is one, and fails with DoesNotExist when there is none.  It makes at
\* most two lookups.
C5_NamedInstanceFallback ==
    mgr.op = "named_instance" =>
        LET name == mgr.crit.value IN
        /\ mgr.res.lookups <= 2
        /\ RowsNamed(name) # {} =>
              /\ mgr.res.returned = "row"
              /\ mgr.res.rows = RowsNamed(name)
              /\ mgr.res.warnings = 0
        /\ (RowsNamed(name) = {} /\ RowsNamed(UNKNOWN) # {}) =>
              /\ mgr.res.returned = "row"
              /\ mgr.res.rows = RowsNamed(UNKNOWN)
              /\ mgr.res.warnings = 1
        /\ (RowsNamed(name) = {} /\ RowsNamed(UNKNOWN) = {}) =>
              /\ mgr.res.returned = "raise"
              /\ mgr.res.raised = "DoesNotExist"
              /\ mgr.res.warnings = 1

\* C5 witness: a name that is not in a table holding other rows and the UNKNOWN
\* row, answered with the UNKNOWN row after one warning
C5_Witness ==
    /\ mgr.op = "named_instance"
    /\ mgr.crit.value = "missing"
    /\ Cardinality(table) > 1
    /\ mgr.res.returned = "row"
    /\ \E r \in mgr.res.rows : r.name = UNKNOWN
    /\ mgr.res.warnings = 1

Matching ==
    { r \in table : \/ mgr.crit.field = "all"
                    \/ mgr.crit.field = "name" /\ r.name = mgr.crit.value
                    \/ mgr.crit.field = "alias" /\ r.alias = mgr.crit.value }

\* C6: get_or_none returns the matching row when exactly one row matches, returns
\* None without raising when no row matches, fails with MultipleObjectsReturned
\* when two or more rows match, and leaves the table as it was.
C6_GetOrNone ==
    mgr.op = "get_or_none" =>
        /\ table = mgr.before
        /\ Cardinality(Matching) = 1 =>
              mgr.res.returned = "row" /\ mgr.res.rows = Matching
        /\ Cardinality(Matching) = 0 =>
              mgr.res.returned = "None" /\ mgr.res.raised = "none"
        /\ Cardinality(Matching) >= 2 =>
              mgr.res.returned = "raise" /\ mgr.res.raised = "MultipleObjectsReturned"

\* C6 witness: a lookup by alias that two rows match, failing with
\* MultipleObjectsReturned
C6_Witness ==
    /\ mgr.op = "get_or_none"
    /\ mgr.crit.field = "alias"
    /\ Cardinality(Matching) = 2
    /\ mgr.res.raised = "MultipleObjectsReturned"

----------------------------------------------------------------------------
\* Claims about the field factories (FieldsSpec)

\* the documented defaults of the plain factories
DocPlain(factory) ==
    CASE factory = "auto_field" ->
            [blank |-> "True", null |-> "False", primary_key |-> "True", unique |-> "True"]
      [] factory = "boolean_field" ->
            [blank |-> "False", null |-> "False", default |-> "False"]
      [] factory = "char_field" ->
            [max_length |-> "1024", blank |-> "False", null |-> "False",
             unique |-> "False"]
      [] factory \in {"date_field", "datetime_field"} ->
            [auto_now |-> "False", auto_now_add |-> "False", blank |-> "False",
             null |-> "False"]
      [] factory = "decimal_field" ->
            [default |-> "0", blank |-> "False", null |-> "False"]
      [] factory = "floating_point_field" ->
            [blank |-> "False", null |-> "False", default |-> "0.0"]
      [] factory \in {"foreign_key_field", "one_to_one_field"} ->
            [blank |-> "False", db_constraint |-> "True", null |-> "False",
             on_delete |-> "models.PROTECT"]
      [] factory \in {"integer_field", "small_integer_field"} ->
            [default |-> "0", blank |-> "False", null |-> "False"]
      [] factory \in {"ip_address_field", "phone_number_field", "email_field"} ->
            [null |-> "False", blank |-> "False"]
      [] factory = "many_to_many_field" ->
            [db_constraint |-> "True", null |-> "True", blank |-> "True"]
      [] factory = "text_field" ->
            [blank |-> "True", null |-> "True", unique |-> "False"]
      [] factory = "url_field" ->
            [max_length |-> "255", null |-> "False", blank |-> "False"]
      [] factory = "uuid_field" ->
            [unique |-> "True", default |-> "uuid.uuid4", db_index |-> "True",
             editable |-> "False"]
      [] factory = "mac_address_field" ->
            [unique |-> "True", null |-> "False", blank |-> "False"]
      [] factory = "time_zone_field" ->
            [null |-> "False", blank |-> "False", default |-> "'America/New_York'"]
      [] factory = "priority_field" -> [default |-> "0"]
      [] factory \in {"file_field", "image_field"} -> NoKwargs

\* b laid over a
Overlaid(a, b) ==
    [k \in DOMAIN a \cup DOMAIN b |-> IF k \in DOMAIN b THEN b[k] ELSE a[k]]

\* the documented defaults of every factory: those of a delegating factory are
\* its own laid over those of the factory it delegates to
Documented(factory) ==
    CASE factory \in {"annotation_field", "description_field"} ->
            Overlaid(DocPlain("text_field"),
                     [blank |-> "False", null |-> "False", unique |-> "False"])
      [] factory = "geo_location_field" ->
            Overlaid(DocPlain("decimal_field"),
                     [max_digits |-> "9", decimal_places |-> "6"])
      [] factory = "latitude_field" ->
            Overlaid(DocPlain("decimal_field"),
                     [max_digits |-> "9", decimal_places |-> "6",
                      validators |-> "[latitude_validator]"])
      [] factory = "longitude_field" ->
            Overlaid(DocPlain("decimal_field"),
                     [max_digits |-> "9", decimal_places |-> "6",
                      validators |-> "[longitude_validator]"])
      [] factory = "name_field" ->
            Overlaid(DocPlain("char_field"),
                     [max_length |-> "255", unique |-> "True", db_index |-> "True",
                      null |-> "False", blank |-> "False"])
      [] factory = "user_field" -> DocPlain("foreign_key_field")
      [] factory = "user_agent_field" ->
            Overlaid(DocPlain("char_field"),
                     [null |-> "False", blank |-> "False", max_length |-> "512"])
      [] factory = "instance_messaging_field" ->
            Overlaid(DocPlain("url_field"),
                     [null |-> "False", blank |-> "False",
                      validators |-> "[URLValidator(schemes=['im', 'xmpp'])]"])
      [] factory = "uri_field" ->
            Overlaid(DocPlain("url_field"),
                     [null |-> "False", blank |-> "False",
                      validators |->
   "[URLValidator(schemes=['im', 'xmpp', 'http', 'https', 'ftp', 'ftps', 'tel', 'mailto', 'urn'])]"])
      [] OTHER -> DocPlain(factory)

\* the required parameters of a factory
Params(factory) ==
    CASE factory = "file_field"         -> <<"upload_to">>
      [] factory = "decimal_field"      -> <<"max_digits", "decimal_places">>
      [] factory = "foreign_key_field"  -> <<"to">>
      [] factory = "one_to_one_field"   -> <<"to">>
      [] factory = "many_to_many_field" -> <<"to", "db_table">>
      [] OTHER                          -> <<>>

\* the call gives every required parameter once, by position or by keyword
RequiredGiven(call) ==
    LET params == Params(call.factory) IN
    /\ Len(call.pos) <= Len(params)
    /\ \A i \in 1..Len(params) : (i <= Len(call.pos)) # (params[i] \in DOMAIN call.kwargs)

\* the value the call gives a required parameter
Given(call, param) ==
    LET params == Params(call.factory)
        i == CHOOSE j \in 1..Len(params) : params[j] = param
    IN  IF i <= Len(call.pos) THEN call.pos[i] ELSE call.kwargs[param]

\* the caller's overrides: the keywords that are not required parameters
CallerOverrides(call) ==
    [k \in DOMAIN call.kwargs \ Range(Params(call.factory)) |-> call.kwargs[k]]

\* the documented default reverse-relation name for a target class
DefaultRelatedName(to) ==
    CASE to = "<class Target>"     -> "'Target_set'"
      [] to = "<class order_item>" -> "'OrderItem_set'"
      [] to = "<class orderItem>"  -> "'OrderItem_set'"

\* the documented defaults of a call, with the required arguments that are passed
\* on as options
DefaultsOf(call) ==
    CASE call.factory = "file_field" ->
            [upload_to |-> Given(call, "upload_to")]
      [] call.factory = "decimal_field" ->
            Overlaid(Documented(call.factory),
                     [max_digits |-> Given(call, "max_digits"),
                      decimal_places |-> Given(call, "decimal_places")])
      [] call.factory = "many_to_many_field" ->
            Overlaid(Documented(call.factory),
                     [db_table |-> Given(call, "db_table"),
                      related_name |-> DefaultRelatedName(Given(call, "to"))])
      [] OTHER -> Documented(call.factory)

\* C7 as stated: for every factory and every set of caller overrides, the options
\* passed to the field constructor are the documented defaults with the caller's
\* overrides laid over them.
C7_OptionsAreDefaultsOverlaid ==
    (fcall.called /\ RequiredGiven(fcall)) =>
        /\ fcall.res.raised = "none"
        /\ fcall.res.options = Overlaid(DefaultsOf(fcall), CallerOverrides(fcall))

\* the values Python takes for false: None, False, a zero, an empty string or list
FalseValues == {None, "False", "0", "0.0", "''", "[]"}

\* a related_name many_to_many_field replaces by its default: one taken for false
DroppedRelatedName(call) ==
    /\ call.factory = "many_to_many_field"
    /\ "related_name" \in DOMAIN call.kwargs
    /\ call.kwargs["related_name"] \in FalseValues

\* the caller's overrides less a related_name that many_to_many_field replaces
KeptOverrides(call) ==
    [k \in DOMAIN CallerOverrides(call)
            \ (IF DroppedRelatedName(call) THEN {"related_name"} ELSE {}) |->
        call.kwargs[k]]

\* C7 amended: user_field given `to` fails with a TypeError; every other call
\* passes the documented defaults with the caller's overrides laid over them,
\* except that many_to_many_field passes its default related_name in place of a
\* caller's related_name that Python takes for false (None, empty).
C7_Amended ==
    (fcall.called /\ RequiredGiven(fcall)) =>
        IF fcall.factory = "user_field" /\ "to" \in DOMAIN fcall.kwargs
        THEN fcall.res.raised = "TypeError"
        ELSE /\ fcall.res.raised = "none"
             /\ fcall.res.options = Overlaid(DefaultsOf(fcall), KeptOverrides(fcall))

\* C7 witness: name_field, which delegates to char_field, called with overrides of
\* a default of its own and of a key it has no default for
C7_Witness ==
    /\ fcall.called
    /\ fcall.factory = "name_field"
    /\ DOMAIN fcall.kwargs = {"max_length", "help_text"}
    /\ fcall.res.ctor = "CharField"
    /\ fcall.res.options["max_length"] = "50"
    /\ fcall.res.options["help_text"] = "'h'"
    /\ fcall.res.options["unique"] = "True"

ManyToManyCalled ==
    fcall.called /\ fcall.factory = "many_to_many_field" /\ RequiredGiven(fcall)

\* C9 as stated: many_to_many_field passes the caller's related_name whenever the
\* caller gives one, whatever its value, and the camelized class name of `to` with
\* '_set' when the caller gives none.
C9_RelatedNameAsGiven ==
    ManyToManyCalled =>
        /\ fcall.res.raised = "none"
        /\ "related_name" \in DOMAIN fcall.kwargs
              => fcall.res.options["related_name"] = fcall.kwargs["related_name"]
        /\ "related_name" \notin DOMAIN fcall.kwargs
              => fcall.res.options["related_name"]
                    = DefaultRelatedName(Given(fcall, "to"))

\* C9 amended: many_to_many_field passes the caller's related_name when the caller
\* gives one that Python takes for true, and the camelized class name of `to` with
\* '_set' when the caller gives none or one that Python takes for false (None,
\* the empty string).
C9_Amended ==
    ManyToManyCalled =>
        /\ fcall.res.raised = "none"
        /\ ("related_name" \in DOMAIN fcall.kwargs
                /\ fcall.kwargs["related_name"] \notin FalseValues)
              => fcall.res.options["related_name"] = fcall.kwargs["related_name"]
        /\ ("related_name" \notin DOMAIN fcall.kwargs
                \/ fcall.kwargs["related_name"] \in FalseValues)
              => fcall.res.options["related_name"]
                    = DefaultRelatedName(Given(fcall, "to"))

\* C9 witness: an empty related_name given for a target named order_item, and the
\* default OrderItem_set passed
C9_Witness ==
    /\ ManyToManyCalled
    /\ fcall.pos = <<"<class order_item>", "'join_tbl'">>
    /\ "related_name" \in DOMAIN fcall.kwargs
    /\ fcall.kwargs["related_name"] = "''"
    /\ fcall.res.options["related_name"] = "'OrderItem_set'"

----------------------------------------------------------------------------
\* Claims about the validators (ValidatorsSpec)

\* C8: latitude_validator returns its argument when -90 < v < 90 and fails with
\* ValidationError otherwise; longitude_validator returns its argument when
\* -180 < v < 180 and fails with ValidationError otherwise.  The bounds themselves
\* are rejected.
C8_OpenRanges ==
    LET v == vcall.value
        bound == IF vcall.fn = "latitude_validator" THEN 90 ELSE 180
        inside == (0 - bound) * v.den < v.num /\ v.num < bound * v.den
    IN  vcall.fn # "none" =>
            /\ inside => vcall.res.raised = "none" /\ vcall.res.returned = {v}
            /\ ~inside => vcall.res.raised = "ValidationError" /\ vcall.res.returned = {}

\* C8 witness: latitude_validator(90) fails
C8_Witness ==
    /\ vcall.fn = "latitude_validator"
    /\ vcall.value = [num |-> 90, den |-> 1]
    /\ vcall.res.raised = "ValidationError"

----------------------------------------------------------------------------
\* Claims about the meta decorator (MetaSpec)

\* the table name the documentation gives: site label, application, class
DocumentedTable(app_label, cls) ==
    LET app == IF app_label = NoneObject THEN "None" ELSE app_label IN
    CASE cls = "<class OrderItem>" -> "sl_" \o app \o "_order_item"
      [] cls = "<class Country>"   -> "sl_" \o app \o "_country"
      [] cls = "<class IPAddress>" -> "sl_" \o app \o "_ip_address"

\* C4: applying the decorator meta(...) returns to a class completes without
\* error, returns the class, attaches the metadata container as Meta and leaves
\* in _meta the container's db_table (the computed table name, or the db_table
\* override), verbose_name and verbose_name_plural.
C4_MetaStampsClass ==
    mcall.op = "meta" =>
        LET cls == mcall.cls
            c == classes[cls]
        IN  /\ mcall.raised = "none"
            /\ mcall.returned = {cls}
            /\ c.Meta.set
            /\ c._meta.db_table = c.Meta.attrs["db_table"]
            /\ c._meta.verbose_name = c.Meta.attrs["verbose_name"]
            /\ c._meta.verbose_name_plural = c.Meta.attrs["verbose_name_plural"]
            /\ c._meta.db_table =
                  IF "db_table" \in DOMAIN mcall.args.kwargs
                  THEN mcall.args.kwargs["db_table"]
                  ELSE DocumentedTable(mcall.args.app_label, cls)

====
